---- MODULE Spec2Model ----
(***************************************************************************)
(* A model of the libdns RFC2136 provider (package rfc2136).               *)
(*                                                                         *)
(* The provider holds a configuration (nameserver, TSIG fields) and a      *)
(* mutex.  Its four public operations GetRecords, AppendRecords,           *)
(* DeleteRecords and SetRecords run in goroutines of the caller; each      *)
(* translates libdns records to dns.RR values (rrFromRecord), builds a     *)
(* message and exchanges it with the nameserver.                           *)
(*                                                                         *)
(* Text that the code inspects character by character (the nameserver      *)
(* address) is a sequence of one-character strings; other text is a TLA+   *)
(* string.  Go's 64-bit and 32-bit integers are little-endian sequences of *)
(* 16-bit limbs, so that conversions between widths keep their meaning.    *)
(***************************************************************************)
EXTENDS Integers, Sequences, FiniteSets, TLC

VARIABLES
    p,          \* the Provider: Nameserver, TSIGAlgorithm, TSIGKeyName, TSIGSecret
    mutex,      \* Provider.mutex: NoOne when free, else the goroutine holding it
    g,          \* per goroutine: the running call, its locals and its control point
    inflight,   \* messages handed to the transport whose exchange has not returned
    zoneData,   \* the nameserver's records, in the order it answers them
    history,    \* the calls that are over, in order of completion, each with what
                \* the nameserver held when it took the mutex and when it ended,
                \* and the answer section a list received
    normOut,    \* result of a call of normalizedNameserver on its own
    trIn,       \* arguments of a call of rrFromRecord on its own
    trOut,      \* its result
    trBack      \* the libdns.Record GetRecords makes of that result

provVars == <<mutex, g, inflight, zoneData, history>>
pureVars == <<normOut, trIn, trOut, trBack>>
vars == <<p, mutex, g, inflight, zoneData, history, normOut, trIn, trOut, trBack>>

\* a Go value that may be nil, or a variable that may hold no value yet: the
\* empty sequence, or the one value in a sequence
None == <<>>
Some(x) == <<x>>
Get(o) == o[1]

\* no goroutine
NoOne == 0

(***************************************************************************)
(* Bounds of the model.                                                    *)
(***************************************************************************)
\* longest nameserver address drawn for normalizedNameserver
MaxAddrLen == 4
\* goroutines calling the provider
NumGoroutines == 2
\* calls made in one run
MaxCalls == 2
\* longest list of records handed to a call
MaxRecords == 1

(***************************************************************************)
(* Go strings as sequences of characters, with Go's 0-based indices.       *)
(***************************************************************************)
\* s[a:b]
Slice(s, a, b) == SubSeq(s, a + 1, b)

\* s[i]
At(s, i) == s[i + 1]

\* strings.IndexByte / bytealg.IndexByteString: first index of c in s, or -1
IndexByte(s, c) ==
    IF \E i \in 1..Len(s) : s[i] = c
    THEN (CHOOSE i \in 1..Len(s) : s[i] = c /\ \A j \in 1..(i - 1) : s[j] # c) - 1
    ELSE -1

\* bytealg.LastIndexByteString: last index of c in s, or -1
LastIndexByte(s, c) ==
    IF \E i \in 1..Len(s) : s[i] = c
    THEN (CHOOSE i \in 1..Len(s) : s[i] = c /\ \A j \in (i + 1)..Len(s) : s[j] # c) - 1
    ELSE -1

\* strings.Contains(s, sub)
Contains(s, sub) ==
    \E i \in 0..(Len(s) - Len(sub)) : Slice(s, i, i + Len(sub)) = sub

missingPort == <<"m", "i", "s", "s", "i", "n", "g", " ", "p", "o", "r", "t", " ",
                 "i", "n", " ", "a", "d", "d", "r", "e", "s", "s">>
tooManyColons == <<"t", "o", "o", " ", "m", "a", "n", "y", " ", "c", "o", "l", "o",
                   "n", "s", " ", "i", "n", " ", "a", "d", "d", "r", "e", "s", "s">>
missingBracket == <<"m", "i", "s", "s", "i", "n", "g", " ", "'", "]", "'", " ",
                    "i", "n", " ", "a", "d", "d", "r", "e", "s", "s">>
unexpectedOpen == <<"u", "n", "e", "x", "p", "e", "c", "t", "e", "d", " ", "'", "[",
                    "'", " ", "i", "n", " ", "a", "d", "d", "r", "e", "s", "s">>
unexpectedClose == <<"u", "n", "e", "x", "p", "e", "c", "t", "e", "d", " ", "'", "]",
                     "'", " ", "i", "n", " ", "a", "d", "d", "r", "e", "s", "s">>

\* the text the provider looks for in the error of net.SplitHostPort
missingPortText == <<"m", "i", "s", "s", "i", "n", "g", " ", "p", "o", "r", "t">>

\* the default DNS port, as the provider writes it
defaultPort == <<"5", "3">>

\* net.AddrError
addrErr(addr, why) == [host |-> <<>>, port |-> <<>>, err |-> Some([Err |-> why, Addr |-> addr])]

\* (*net.AddrError).Error(): Err, after "address " + Addr + ": " when Addr is
\* not empty
AddrErrorString(e) ==
    IF e.Addr # <<>>
    THEN <<"a", "d", "d", "r", "e", "s", "s", " ">> \o e.Addr \o <<":", " ">> \o e.Err
    ELSE e.Err

\* net.SplitHostPort on an address that starts with '['
SplitBracketed(hostport, i) ==
    LET end == IndexByte(hostport, "]") IN
    IF end < 0 THEN addrErr(hostport, missingBracket)
    ELSE IF end + 1 = Len(hostport) THEN addrErr(hostport, missingPort)
    ELSE IF end + 1 # i THEN
        IF At(hostport, end + 1) = ":" THEN addrErr(hostport, tooManyColons)
        ELSE addrErr(hostport, missingPort)
    ELSE IF IndexByte(Slice(hostport, 1, Len(hostport)), "[") >= 0
        THEN addrErr(hostport, unexpectedOpen)
    ELSE IF IndexByte(Slice(hostport, end + 1, Len(hostport)), "]") >= 0
        THEN addrErr(hostport, unexpectedClose)
    ELSE [host |-> Slice(hostport, 1, end),
          port |-> Slice(hostport, i + 1, Len(hostport)), err |-> None]

\* net.SplitHostPort on an address that does not start with '['
SplitPlain(hostport, i) ==
    IF IndexByte(Slice(hostport, 0, i), ":") >= 0 THEN addrErr(hostport, tooManyColons)
    ELSE IF IndexByte(hostport, "[") >= 0 THEN addrErr(hostport, unexpectedOpen)
    ELSE IF IndexByte(hostport, "]") >= 0 THEN addrErr(hostport, unexpectedClose)
    ELSE [host |-> Slice(hostport, 0, i),
          port |-> Slice(hostport, i + 1, Len(hostport)), err |-> None]

\* net.SplitHostPort, as the provider calls it: the port starts after the last colon
SplitHostPort(hostport) ==
    LET i == LastIndexByte(hostport, ":") IN
    IF i < 0 THEN addrErr(hostport, missingPort)
    ELSE IF At(hostport, 0) = "[" THEN SplitBracketed(hostport, i)
    ELSE SplitPlain(hostport, i)

\* net.JoinHostPort: a host with a colon is taken for an IPv6 literal and bracketed
JoinHostPort(host, port) ==
    IF IndexByte(host, ":") >= 0
    THEN <<"[">> \o host \o <<"]", ":">> \o port
    ELSE host \o <<":">> \o port

\* Provider.normalizedNameserver
normalizedNameserver(prov) ==
    LET r == SplitHostPort(prov.Nameserver) IN
    IF r.err # None /\ Contains(AddrErrorString(Get(r.err)), missingPortText)
    THEN JoinHostPort(prov.Nameserver, defaultPort)
    ELSE prov.Nameserver

(***************************************************************************)
(* Go integers.  A uint32 is two 16-bit limbs, an int64 (time.Duration, a  *)
(* count of nanoseconds) four, least significant first.                    *)
(***************************************************************************)
\* the int64 of a small natural number
Int64(n) == <<n % 65536, n \div 65536, 0, 0>>

\* x * k on the width of x (overflow wraps), for 0 <= k < 2^15
RECURSIVE MulLimbs(_, _, _)
MulLimbs(x, k, carry) ==
    IF x = <<>> THEN <<>>
    ELSE LET v == Head(x) * k + carry IN
         <<v % 65536>> \o MulLimbs(Tail(x), k, v \div 65536)

\* time.Duration(n) * time.Second: n seconds, in nanoseconds
Seconds(n) == MulLimbs(MulLimbs(MulLimbs(Int64(n), 1000, 0), 1000, 0), 1000, 0)

\* the conversion uint32(d) of an int64: the low 32 bits
ToUint32(d) == SubSeq(d, 1, 2)

\* the conversion time.Duration(u) of a uint32: the same number, of nanoseconds
ToDuration(u) == u \o <<0, 0>>

\* strconv.FormatInt(int64(u), 10) of a uint32
RECURSIVE FormatUint32(_)
FormatUint32(u) ==
    IF u[2] = 0 /\ u[1] < 10 THEN ToString(u[1])
    ELSE LET mid == (u[2] % 10) * 65536 + u[1] IN
         FormatUint32(<<mid \div 10, u[2] \div 10>>) \o ToString(mid % 10)

(***************************************************************************)
(* github.com/miekg/dns: types, classes, resource records.                 *)
(***************************************************************************)
TypeANY == 255
ClassINET == 1
ClassNONE == 254
ClassANY == 255
RcodeSuccess == 0

\* dns.TypeToString: the mnemonic of each type code the library names (those of
\* the release of the library the provider was written with)
TypeToString ==
    << <<0, "None">>, <<1, "A">>, <<2, "NS">>, <<3, "MD">>, <<4, "MF">>,
       <<5, "CNAME">>, <<6, "SOA">>, <<7, "MB">>, <<8, "MG">>, <<9, "MR">>,
       <<10, "NULL">>, <<12, "PTR">>, <<13, "HINFO">>, <<14, "MINFO">>, <<15, "MX">>,
       <<16, "TXT">>, <<17, "RP">>, <<18, "AFSDB">>, <<19, "X25">>, <<20, "ISDN">>,
       <<21, "RT">>, <<23, "NSAP-PTR">>, <<24, "SIG">>, <<25, "KEY">>, <<26, "PX">>,
       <<27, "GPOS">>, <<28, "AAAA">>, <<29, "LOC">>, <<30, "NXT">>, <<31, "EID">>,
       <<32, "NIMLOC">>, <<33, "SRV">>, <<34, "ATMA">>, <<35, "NAPTR">>, <<36, "KX">>,
       <<37, "CERT">>, <<39, "DNAME">>, <<41, "OPT">>, <<42, "APL">>, <<43, "DS">>,
       <<44, "SSHFP">>, <<46, "RRSIG">>, <<47, "NSEC">>, <<48, "DNSKEY">>,
       <<49, "DHCID">>, <<50, "NSEC3">>, <<51, "NSEC3PARAM">>, <<52, "TLSA">>,
       <<53, "SMIMEA">>, <<55, "HIP">>, <<56, "NINFO">>, <<57, "RKEY">>,
       <<58, "TALINK">>, <<59, "CDS">>, <<60, "CDNSKEY">>, <<61, "OPENPGPKEY">>,
       <<62, "CSYNC">>, <<99, "SPF">>, <<100, "UINFO">>, <<101, "UID">>,
       <<102, "GID">>, <<103, "UNSPEC">>, <<104, "NID">>, <<105, "L32">>,
       <<106, "L64">>, <<107, "LP">>, <<108, "EUI48">>, <<109, "EUI64">>,
       <<249, "TKEY">>, <<250, "TSIG">>, <<251, "IXFR">>, <<252, "AXFR">>,
       <<253, "MAILB">>, <<254, "MAILA">>, <<255, "ANY">>, <<256, "URI">>,
       <<257, "CAA">>, <<258, "AVC">>, <<32768, "TA">>, <<32769, "DLV">>,
       <<65535, "Reserved">> >>

\* the mnemonic is a key of dns.StringToType, the map TypeToString reversed
IsTypeName(s) == \E i \in 1..Len(TypeToString) : TypeToString[i][2] = s

\* dns.StringToType[s]: the type code of a mnemonic, 0 (the zero value of the
\* map) when it has none
StringToType(s) ==
    IF IsTypeName(s)
    THEN TypeToString[CHOOSE i \in 1..Len(TypeToString) : TypeToString[i][2] = s][1]
    ELSE 0

\* dns.Type(t).String(): the mnemonic, or "TYPE" and the number
TypeString(t) ==
    IF \E i \in 1..Len(TypeToString) : TypeToString[i][1] = t
    THEN TypeToString[CHOOSE i \in 1..Len(TypeToString) : TypeToString[i][1] = t][2]
    ELSE "TYPE" \o ToString(t)

\* dns.ClassToString
ClassToString(c) ==
    CASE c = ClassINET -> Some("IN")
      [] c = 2 -> Some("CS")
      [] c = 3 -> Some("CH")
      [] c = 4 -> Some("HS")
      [] c = ClassNONE -> Some("NONE")
      [] c = ClassANY -> Some("ANY")
      [] OTHER -> None

\* dns.Class(c).String(): the mnemonic of the class when it has one that is not
\* also the mnemonic of a type (as ANY is), else "CLASS" and the number
ClassString(c) ==
    IF ClassToString(c) # None /\ ~IsTypeName(Get(ClassToString(c)))
    THEN Get(ClassToString(c))
    ELSE "CLASS" \o ToString(c)

\* dns.RR_Header
RR_Header(name, rrtype, class, ttl) ==
    [Name |-> name, Rrtype |-> rrtype, Class |-> class, Ttl |-> ttl]

\* a dns.RR: its header and the fields of its concrete type (kind)
RR(hdr, kind, data) == [Hdr |-> hdr, kind |-> kind, data |-> data]

\* a net.IP holding the address whose text is ip (as the server sends it)
IPAddr(ip) == [valid |-> TRUE, text |-> ip]

\* the conversion net.IP(s) of a string: the bytes of the text itself
IPFromBytes(s) == [valid |-> FALSE, text |-> s]

\* the printable characters of ASCII, in the order of their codes: those of
\* codes 32 (the space) to 95, the grave accent (96), those of codes 97 to 126
AsciiTo95 == " !\"#$%&'()*+,-./0123456789:;<=>?@ABCDEFGHIJKLMNOPQRSTUVWXYZ[\\]^_"
Grave == SubSeq("`'", 1, 1)
AsciiFrom97 == "abcdefghijklmnopqrstuvwxyz{|}~"
Ascii == AsciiTo95 \o Grave \o AsciiFrom97

\* the control characters a string can hold here, and their codes
Controls == <<<<"\t", 9>>, <<"\n", 10>>, <<"\f", 12>>, <<"\r", 13>>>>

\* the byte of each of these characters
CharCodes ==
    [c \in {SubSeq(Ascii, i, i) : i \in 1..Len(Ascii)}
            \cup {Controls[i][1] : i \in 1..Len(Controls)} |->
        IF \E i \in 1..Len(Ascii) : SubSeq(Ascii, i, i) = c
        THEN 31 + CHOOSE i \in 1..Len(Ascii) : SubSeq(Ascii, i, i) = c
        ELSE Controls[CHOOSE i \in 1..Len(Controls) : Controls[i][1] = c][2]]

\* the byte of a character of a text
CharCode(c) == CharCodes[c]

\* []byte(s): the bytes of a text
Bytes(s) == [i \in 1..Len(s) |-> CharCode(SubSeq(s, i, i))]

\* a number in hexadecimal, lower case, without leading zeros
RECURSIVE HexInt(_)
HexInt(n) ==
    LET digit == SubSeq("0123456789abcdef", (n % 16) + 1, (n % 16) + 1)
    IN  IF n < 16 THEN digit ELSE HexInt(n \div 16) \o digit

\* hexString of net: two hexadecimal digits for each byte
RECURSIVE HexString(_)
HexString(b) ==
    IF b = <<>> THEN ""
    ELSE (IF Head(b) < 16 THEN "0" ELSE "") \o HexInt(Head(b)) \o HexString(Tail(b))

\* the dotted notation of four bytes
Dotted(b) ==
    ToString(b[1]) \o "." \o ToString(b[2]) \o "." \o ToString(b[3]) \o "." \o ToString(b[4])

\* the eight 16-bit groups of sixteen bytes
GroupsOf(b) == [i \in 1..8 |-> b[2 * i - 1] * 256 + b[2 * i]]

\* the number of groups that are 0 in a row, from group i on
RECURSIVE ZeroRun(_, _)
ZeroRun(gs, i) == IF i > Len(gs) \/ gs[i] # 0 THEN 0 ELSE 1 + ZeroRun(gs, i + 1)

\* where the first of the longest runs of zero groups starts
LongestZeroRun(gs) ==
    CHOOSE i \in 1..Len(gs) :
        \A k \in 1..Len(gs) :
            \/ ZeroRun(gs, k) < ZeroRun(gs, i)
            \/ (ZeroRun(gs, k) = ZeroRun(gs, i) /\ i <= k)

\* the groups from group i on, in hexadecimal with colons between them, "::"
\* standing for the groups e0 to e1 - 1 (for none when e0 = 0)
RECURSIVE GroupsFrom(_, _, _, _)
GroupsFrom(gs, e0, e1, i) ==
    IF i > Len(gs) THEN ""
    ELSE IF i = e0
    THEN "::" \o (IF e1 > Len(gs) THEN ""
                  ELSE HexInt(gs[e1]) \o GroupsFrom(gs, e0, e1, e1 + 1))
    ELSE (IF i > 1 THEN ":" ELSE "") \o HexInt(gs[i]) \o GroupsFrom(gs, e0, e1, i + 1)

\* the notation of an IPv6 address of sixteen bytes: eight groups in
\* hexadecimal, the first of the longest runs of two or more zero groups
\* written "::"
Groups(b) ==
    LET gs == GroupsOf(b)
        e0 == LongestZeroRun(gs)
    IN  IF ZeroRun(gs, e0) >= 2
        THEN GroupsFrom(gs, e0, e0 + ZeroRun(gs, e0), 1)
        ELSE GroupsFrom(gs, 0, 0, 1)

\* net.IP.To4: the four bytes of an IPv4 address, held in four bytes or in
\* sixteen (ten of 0, two of 255, then the four); none otherwise
To4(b) ==
    IF Len(b) = 4 THEN Some(b)
    ELSE IF /\ Len(b) = 16
            /\ \A i \in 1..10 : b[i] = 0
            /\ b[11] = 255
            /\ b[12] = 255
    THEN Some(SubSeq(b, 13, 16))
    ELSE None

\* net.IP.String() of the bytes of an address
BytesString(b) ==
    IF Len(b) = 0 THEN "<nil>"
    ELSE IF Len(b) \notin {4, 16} THEN "?" \o HexString(b)
    ELSE IF To4(b) # None THEN Dotted(Get(To4(b)))
    ELSE Groups(b)

\* net.IP.String(): "<nil>" for no bytes, "?" and the bytes in hexadecimal when
\* they are neither 4 nor 16, else the address in its notation
IPString(ip) == IF ip.valid THEN ip.text ELSE BytesString(Bytes(ip.text))

\* the character of a byte that is printable (32 to 126)
CharOf(b) == SubSeq(Ascii, b - 31, b - 31)

\* the character at offset i of a text (the first one is at offset 0)
CharAt(s, i) == SubSeq(s, i + 1, i + 1)

isDigit(c) == c \in {"0", "1", "2", "3", "4", "5", "6", "7", "8", "9"}

\* dns nextByte: the byte a text in presentation format holds at an offset, and
\* the number of characters that make it: the character itself, or after a
\* backslash three digits (its code) or one character; n is 0 when the text
\* ends, or ends on the backslash
nextByte(s, offset) ==
    IF offset >= Len(s) THEN [b |-> 0, n |-> 0]
    ELSE IF CharAt(s, offset) # "\\" THEN [b |-> CharCode(CharAt(s, offset)), n |-> 1]
    ELSE IF Len(s) - offset = 1 THEN [b |-> 0, n |-> 0]
    ELSE IF /\ Len(s) - offset >= 4
            /\ isDigit(CharAt(s, offset + 1))
            /\ isDigit(CharAt(s, offset + 2))
            /\ isDigit(CharAt(s, offset + 3))
    THEN [b |-> ( (CharCode(CharAt(s, offset + 1)) - 48) * 100
                  + (CharCode(CharAt(s, offset + 2)) - 48) * 10
                  + (CharCode(CharAt(s, offset + 3)) - 48) ) % 256,
          n |-> 4]
    ELSE [b |-> CharCode(CharAt(s, offset + 1)), n |-> 2]

\* dns escapeByte: a backslash and the byte in three decimal digits
escapeByte(b) ==
    "\\" \o ToString(b \div 100) \o ToString((b \div 10) % 10) \o ToString(b % 10)

\* dns isDomainNameLabelSpecial: the bytes of . space ' @ ; ( ) " and \
SpecialBytes ==
    {CharCode("."), CharCode(" "), CharCode("'"), CharCode("@"), CharCode(";"),
     CharCode("("), CharCode(")"), CharCode("\""), CharCode("\\")}
isDomainNameLabelSpecial(b) == b \in SpecialBytes

\* dns sprintName, one turn of its loop at offset i, dst being what it has
\* written: it starts to write, with what it has read, at the first byte to
\* escape; a backslash the name ends on stops it
sprintNameStep(s, i, dst) ==
    IF CharAt(s, i) = "."
    THEN [stop |-> FALSE, i |-> i + 1, dst |-> IF dst # "" THEN dst \o "." ELSE dst]
    ELSE LET next == nextByte(s, i)
             begun == IF dst = "" THEN SubSeq(s, 1, i) ELSE dst
         IN  IF next.n = 0
             THEN [stop |-> TRUE, i |-> i, dst |-> begun]
             ELSE IF isDomainNameLabelSpecial(next.b)
             THEN [stop |-> FALSE, i |-> i + next.n,
                   dst |-> begun \o "\\" \o CharOf(next.b)]
             ELSE IF next.b < 32 \/ next.b > 126
             THEN [stop |-> FALSE, i |-> i + next.n, dst |-> begun \o escapeByte(next.b)]
             ELSE [stop |-> FALSE, i |-> i + next.n,
                   dst |-> IF dst # "" THEN dst \o CharOf(next.b) ELSE dst]

\* dns sprintName, its loop from offset i on
RECURSIVE sprintNameFrom(_, _, _)
sprintNameFrom(s, i, dst) ==
    IF i >= Len(s) THEN (IF dst = "" THEN s ELSE dst)
    ELSE CHOOSE out \in {IF step.stop THEN step.dst
                         ELSE sprintNameFrom(s, step.i, step.dst) :
                            step \in {sprintNameStep(s, i, dst)}} : TRUE

\* dns sprintName: a domain name for printing
sprintName(s) == sprintNameFrom(s, 0, "")

\* dns writeTXTStringByte: the bytes of " and \ take a backslash
QuotedBytes == {CharCode("\""), CharCode("\\")}
writeTXTStringByte(b) ==
    IF b \in QuotedBytes THEN "\\" \o CharOf(b)
    ELSE IF b < 32 \/ b > 126 THEN escapeByte(b)
    ELSE CharOf(b)

\* dns sprintTxt, its loop over the bytes of one string from offset j on
RECURSIVE sprintTxtFrom(_, _)
sprintTxtFrom(s, j) ==
    IF j >= Len(s) THEN ""
    ELSE CHOOSE out \in {IF next.n = 0 THEN ""
                         ELSE writeTXTStringByte(next.b) \o sprintTxtFrom(s, j + next.n) :
                            next \in {nextByte(s, j)}} : TRUE

\* dns sprintTxt, from the i-th string on
RECURSIVE sprintTxtStrings(_, _)
sprintTxtStrings(txt, i) ==
    IF i > Len(txt) THEN ""
    ELSE (IF i = 1 THEN "\"" ELSE " \"") \o sprintTxtFrom(txt[i], 0) \o "\""
            \o sprintTxtStrings(txt, i + 1)

\* dns sprintTxt: the strings of a TXT record, each between quotes
sprintTxt(txt) == sprintTxtStrings(txt, 1)

TypeOPT == 41

\* (*dns.RR_Header).String()
HdrString(h) ==
    (IF h.Rrtype = TypeOPT THEN ";" ELSE "")
        \o sprintName(h.Name) \o "\t" \o FormatUint32(h.Ttl) \o "\t"
        \o ClassString(h.Class) \o "\t" \o TypeString(h.Rrtype) \o "\t"

\* rr.String(): the header and the data in presentation format
RRString(rr) ==
    HdrString(rr.Hdr) \o
    ( CASE rr.kind = "A" -> IPString(rr.data.A)
        [] rr.kind = "AAAA" -> IPString(rr.data.AAAA)
        [] rr.kind = "CNAME" -> sprintName(rr.data.Target)
        [] rr.kind = "NS" -> sprintName(rr.data.Ns)
        [] rr.kind = "MX" -> ToString(rr.data.Preference) \o " " \o sprintName(rr.data.Mx)
        [] rr.kind = "TXT" -> sprintTxt(rr.data.Txt)
        [] OTHER -> "" )

(***************************************************************************)
(* libdns records and their translation.                                   *)
(***************************************************************************)
\* libdns.Record
Record(name, type, value, ttl) == [Name |-> name, Type |-> type, Value |-> value, TTL |-> ttl]

\* rrFromRecord, the header it fills first
rrHeader(zone, record) ==
    RR_Header(zone, StringToType(record.Type), ClassINET, ToUint32(record.TTL))

\* rrFromRecord, the value each case of the switch builds in the variable rr it
\* declares in its own block
caseRR(zone, record) ==
    LET header == rrHeader(zone, record) IN
    CASE record.Type = "A" -> RR(header, "A", [A |-> IPFromBytes(record.Value)])
      [] record.Type = "AAAA" -> RR(header, "AAAA", [AAAA |-> IPFromBytes(record.Value)])
      [] record.Type = "CNAME" -> RR(header, "CNAME", [Target |-> record.Value])
      [] record.Type = "MX" -> RR(header, "MX", [Preference |-> 0, Mx |-> record.Value])
      [] record.Type = "TXT" -> RR(header, "TXT", [Txt |-> <<record.Value>>])

\* the types the switch of rrFromRecord has a case for
CaseTypes == {"A", "AAAA", "CNAME", "MX", "TXT"}

\* an error made by fmt.Errorf: its text and the error it wraps, if any
Errorf(text, wrapped) == [text |-> text, wraps |-> wrapped]

\* rrFromRecord without its default case: every type falls out of the switch
rrFromRecordNoDefault(zone, record) == [rr |-> None, err |-> None]

\* rrFromRecord: the function's own rr is declared nil and is what it returns;
\* each case builds its record in the rr its own block declares (caseRR), which
\* ends with the block
rrFromRecord(zone, record) ==
    LET rr == None IN
    IF record.Type \in CaseTypes
    THEN [rr |-> rr, err |-> None]
    ELSE [rr |-> None, err |-> Some(Errorf("unsupported type " \o record.Type, None))]

\* GetRecords, the body of its loop: the libdns.Record made of an answer
recordFromRR(rr) ==
    Record(rr.Hdr.Name, TypeString(rr.Hdr.Rrtype), RRString(rr), ToDuration(rr.Hdr.Ttl))

(***************************************************************************)
(* The provider's configuration.                                           *)
(***************************************************************************)
\* characters of the nameserver addresses drawn
AddrChars == {"n", ":", "[", "]", "5"}

\* every address of at most n characters
RECURSIVE AddrStrings(_)
AddrStrings(n) ==
    IF n = 0 THEN {<<>>}
    ELSE LET shorter == AddrStrings(n - 1) IN
         shorter \cup {Append(s, c) : s \in {t \in shorter : Len(t) = n - 1}, c \in AddrChars}

\* a Provider value
NewProvider(ns, alg, key, secret) ==
    [Nameserver |-> ns, TSIGAlgorithm |-> alg, TSIGKeyName |-> key, TSIGSecret |-> secret]

\* the configuration the provider runs with when its operations are exercised
DefaultProvider == NewProvider(<<"n">>, <<>>, <<>>, <<>>)

\* dns.IsFqdn: the name ends with a dot that is not escaped, that is, one that
\* an even number of backslashes comes before
IsFqdn(name) ==
    IF name = <<>> \/ name[Len(name)] # "." THEN FALSE
    ELSE LET s == SubSeq(name, 1, Len(name) - 1)
             others == {k \in 1..Len(s) : s[k] # "\\"}
             i == IF others = {} THEN -1
                  ELSE (CHOOSE k \in others : \A l \in others : l <= k) - 1
         IN  IF s = <<>> \/ s[Len(s)] # "\\" THEN TRUE
             ELSE (Len(s) - i) % 2 # 0

\* dns.Fqdn: the name, with a final dot added when it is not fully qualified
Fqdn(name) == IF IsFqdn(name) THEN name ELSE name \o <<".">>

\* the configuration the provider runs with when TSIG is configured
SignedProvider ==
    NewProvider(<<"n", ":", "5">>, <<"h">>, <<"k">>, <<"s">>)

Providers == {DefaultProvider, SignedProvider}

(***************************************************************************)
(* Messages (dns.Msg) and the nameserver.                                  *)
(***************************************************************************)
TypeSOA == 6
TsigFudge == 300

Question(name, qtype, qclass) == [Name |-> name, Qtype |-> qtype, Qclass |-> qclass]

\* GetRecords: the query for everything at the zone's name
QueryMsg(zone) ==
    [Opcode |-> "QUERY", RecursionDesired |-> TRUE,
     Question |-> <<Question(zone, TypeANY, ClassINET)>>, Ns |-> <<>>, Tsig |-> None]

\* new(dns.Msg) and msg.SetUpdate(zone)
SetUpdate(zone) ==
    [Opcode |-> "UPDATE", RecursionDesired |-> FALSE,
     Question |-> <<Question(zone, TypeSOA, ClassINET)>>, Ns |-> <<>>, Tsig |-> None]

\* msg.Insert, msg.Remove and msg.RemoveRRset call Header() on each record given:
\* a nil dns.RR makes them panic (nil pointer dereference)
HeaderPanics(rrs) == \E i \in 1..Len(rrs) : rrs[i] = None

\* msg.Insert(rrs): each record, with the class of the zone, to be added
Insert(msg, rrs) ==
    [msg EXCEPT !.Ns = @ \o [i \in 1..Len(rrs) |->
        [Get(rrs[i]) EXCEPT !.Hdr.Class = msg.Question[1].Qclass]]]

\* msg.Remove(rrs): each record, with class NONE and TTL 0, to be deleted by value
Remove(msg, rrs) ==
    [msg EXCEPT !.Ns = @ \o [i \in 1..Len(rrs) |->
        [Get(rrs[i]) EXCEPT !.Hdr.Class = ClassNONE, !.Hdr.Ttl = <<0, 0>>]]]

\* msg.RemoveRRset(rrs): for each record, the deletion of the RRset of its name and type
RemoveRRset(msg, rrs) ==
    [msg EXCEPT !.Ns = @ \o [i \in 1..Len(rrs) |->
        RR(RR_Header(Get(rrs[i]).Hdr.Name, Get(rrs[i]).Hdr.Rrtype, ClassANY, <<0, 0>>),
           "ANY", [none |-> TRUE])]]

\* Provider.makeClient
makeClient(prov) ==
    [SingleInflight |-> TRUE,
     TsigSecret |-> IF Len(prov.TSIGKeyName) > 0 /\ Len(prov.TSIGSecret) > 0
                    THEN {<<Fqdn(prov.TSIGKeyName), prov.TSIGSecret>>}
                    ELSE {}]

\* Provider.configureMessage
configureMessage(prov, msg) ==
    IF Len(prov.TSIGKeyName) > 0 /\ Len(prov.TSIGSecret) > 0
    THEN [msg EXCEPT !.Tsig = Some([Name |-> Fqdn(prov.TSIGKeyName),
                                    Algorithm |-> Fqdn(prov.TSIGAlgorithm),
                                    Fudge |-> TsigFudge])]
    ELSE msg

\* the message an update operation builds of one translated record
UpdateMsg(prov, op, zone, rrs) ==
    LET msg == SetUpdate(zone) IN
    configureMessage(prov,
        CASE op = "append" -> Insert(msg, rrs)
          [] op = "delete" -> Remove(msg, rrs)
          [] op = "set" -> Insert(RemoveRRset(msg, rrs), rrs))

\* the nameserver applying one record of an update's Ns section (RFC 2136, 3.4.2)
ApplyOne(data, u) ==
    LET SameSet(r) == r.Hdr.Name = u.Hdr.Name /\ r.Hdr.Rrtype = u.Hdr.Rrtype
        SameRR(r) == SameSet(r) /\ r.kind = u.kind /\ r.data = u.data
        OtherSet(r) == ~SameSet(r)
        OtherRR(r) == ~SameRR(r)
    IN  IF u.Hdr.Class = ClassANY THEN SelectSeq(data, OtherSet)
        ELSE IF u.Hdr.Class = ClassNONE THEN SelectSeq(data, OtherRR)
        ELSE SelectSeq(data, OtherRR) \o <<u>>

\* the nameserver applying an update's Ns section, in order
RECURSIVE ApplyUpdate(_, _)
ApplyUpdate(data, ns) ==
    IF ns = <<>> THEN data ELSE ApplyUpdate(ApplyOne(data, Head(ns)), Tail(ns))

\* the nameserver's answer section to a question of type ANY
Answer(data, q) ==
    LET Asked(r) == r.Hdr.Name = q.Name IN SelectSeq(data, Asked)

\* dns.RcodeToString
RcodeToString(rcode) ==
    CASE rcode = RcodeSuccess -> "NOERROR"
      [] rcode = 1 -> "FORMERR"
      [] rcode = 2 -> "SERVFAIL"
      [] rcode = 3 -> "NXDOMAIN"
      [] rcode = 4 -> "NOTIMP"
      [] rcode = 5 -> "REFUSED"
      [] rcode = 6 -> "YXDOMAIN"
      [] rcode = 7 -> "YXRRSET"
      [] rcode = 8 -> "NXRRSET"
      [] rcode = 9 -> "NOTAUTH"
      [] rcode = 10 -> "NOTZONE"
      [] rcode = 16 -> "BADSIG"
      [] rcode = 17 -> "BADKEY"
      [] rcode = 18 -> "BADTIME"
      [] rcode = 19 -> "BADMODE"
      [] rcode = 20 -> "BADNAME"
      [] rcode = 21 -> "BADALG"
      [] rcode = 22 -> "BADTRUNC"
      [] rcode = 23 -> "BADCOOKIE"
      [] OTHER -> ""

(***************************************************************************)
(* The state of everything but one part, for the specifications that       *)
(* exercise that part alone.                                               *)
(***************************************************************************)
ProvIdle ==
    /\ mutex = NoOne
    /\ g = <<>>
    /\ inflight = {}
    /\ zoneData = <<>>
    /\ history = <<>>

PureIdle ==
    /\ normOut = None
    /\ trIn = None
    /\ trOut = None
    /\ trBack = None

(***************************************************************************)
(* normalizedNameserver on its own: any address, one call.                 *)
(***************************************************************************)
InitNormalize ==
    /\ p \in {NewProvider(a, <<>>, <<>>, <<>>) : a \in AddrStrings(MaxAddrLen)}
    /\ ProvIdle
    /\ PureIdle

\* p.normalizedNameserver(): reads the configuration and returns a string
Normalize ==
    /\ normOut = None
    /\ normOut' = Some(normalizedNameserver(p))
    /\ UNCHANGED <<p, provVars, trIn, trOut, trBack>>

NextNormalize == Normalize

SpecNormalize == InitNormalize /\ [][NextNormalize]_vars

(***************************************************************************)
(* rrFromRecord on its own, and what GetRecords makes of its result.       *)
(***************************************************************************)
Zones == {"example.org."}
RecordNames == {"test.example.org.", "example.org."}
RecordTypes == {"A", "AAAA", "CNAME", "MX", "TXT", "SRV", "NS"}
RecordValues == {"127.0.0.1", "::1", "v1", "mail.example.org."}
RecordTTLs == {Seconds(300), Seconds(0)}

AllRecords ==
    {Record(n, ty, v, ttl) : n \in RecordNames, ty \in RecordTypes,
                             v \in RecordValues, ttl \in RecordTTLs}

InitTranslate ==
    /\ p = DefaultProvider
    /\ ProvIdle
    /\ normOut = None
    /\ trIn \in {Some([zone |-> z, record |-> r]) : z \in Zones, r \in AllRecords}
    /\ trOut = None
    /\ trBack = None

\* rr, err := rrFromRecord(zone, record)
Translate ==
    /\ trOut = None
    /\ trOut' = Some(rrFromRecord(Get(trIn).zone, Get(trIn).record))
    /\ UNCHANGED <<p, provVars, normOut, trIn, trBack>>

\* the body of the loop of GetRecords on the record returned: record.Header() on
\* a nil dns.RR panics
ReadBack ==
    /\ trOut # None
    /\ Get(trOut).err = None
    /\ trBack = None
    /\ trBack' = Some(IF Get(trOut).rr = None
                      THEN [panic |-> TRUE, record |-> None]
                      ELSE [panic |-> FALSE,
                            record |-> Some(recordFromRR(Get(Get(trOut).rr)))])
    /\ UNCHANGED <<p, provVars, normOut, trIn, trOut>>

NextTranslate == Translate \/ ReadBack

SpecTranslate == InitTranslate /\ [][NextTranslate]_vars

(***************************************************************************)
(* The provider, called from several goroutines.                           *)
(***************************************************************************)
Goroutines == 1..NumGoroutines

\* the records the callers hand to the provider
TxtRecord == Record("test.example.org.", "TXT", "v1", Seconds(300))
SrvRecord == Record("test.example.org.", "SRV", "0 0 53 ns.example.org.", Seconds(300))
RecordPool == {TxtRecord, SrvRecord}

\* every list of at most n records of the pool
RECURSIVE RecordLists(_)
RecordLists(n) ==
    IF n = 0 THEN {<<>>}
    ELSE LET shorter == RecordLists(n - 1) IN
         shorter \cup {Append(s, r) : s \in {l \in shorter : Len(l) = n - 1}, r \in RecordPool}

UpdateOps == {"append", "delete", "set"}

\* what the nameserver may hold at first, in the order it answers; it may
\* give a record twice
TxtRR(name, value) ==
    RR(RR_Header(name, StringToType("TXT"), ClassINET, <<300, 0>>), "TXT", [Txt |-> <<value>>])
NsRR(name, host) ==
    RR(RR_Header(name, StringToType("NS"), ClassINET, <<3600, 0>>), "NS", [Ns |-> host])
ZoneStates ==
    { <<>>,
      <<NsRR("example.org.", "ns.example.org."), TxtRR("example.org.", "v2"),
        TxtRR("example.org.", "v2"),
        TxtRR("test.example.org.", "v2"), TxtRR("test.example.org.", "v1")>> }

\* a goroutine that runs no call
IdleG ==
    [pc |-> "idle", op |-> "", zone |-> "", records |-> <<>>, nameserver |-> <<>>,
     i |-> 0, out |-> <<>>, sent |-> <<>>, replies |-> <<>>, zoneBefore |-> <<>>]

Init ==
    /\ p \in Providers
    /\ mutex = NoOne
    /\ g = [t \in Goroutines |-> IdleG]
    /\ inflight = {}
    /\ zoneData \in ZoneStates
    /\ history = <<>>
    /\ PureIdle

Active == {t \in Goroutines : g[t].pc # "idle"}

\* a goroutine calls GetRecords, AppendRecords, DeleteRecords or SetRecords and
\* comes to p.mutex.Lock()
Call(t, op, zone, records) ==
    /\ g[t].pc = "idle"
    /\ Len(history) + Cardinality(Active) < MaxCalls
    /\ g' = [g EXCEPT ![t] = [IdleG EXCEPT !.pc = "called", !.op = op, !.zone = zone,
                                           !.records = records]]
    /\ UNCHANGED <<p, mutex, inflight, zoneData, history, pureVars>>

\* a Lock that returns whoever holds the mutex
CanLockAnytime(t) == TRUE

\* sync.Mutex.Lock returns when the mutex is free
CanLock(t) == mutex = NoOne

\* p.mutex.Lock() returns; an update operation then makes its client, takes the
\* nameserver's address and comes to its loop
Lock(t) ==
    /\ g[t].pc = "called"
    /\ CanLock(t)
    /\ mutex' = t
    /\ g' = [g EXCEPT ![t] =
                IF g[t].op = "list"
                THEN [@ EXCEPT !.pc = "query", !.zoneBefore = zoneData]
                ELSE [@ EXCEPT !.pc = "loop", !.i = 1, !.zoneBefore = zoneData,
                               !.nameserver = normalizedNameserver(p)]]
    /\ UNCHANGED <<p, inflight, zoneData, history, pureVars>>

\* a return that unlocks only at the end of a call that succeeded, as it would
\* without the defer
FinishUnlocksOnSuccess(t, outcome, out, err, replies, answer) ==
    /\ mutex' = IF outcome = "ok" THEN NoOne ELSE mutex
    /\ history' = Append(history,
            [op |-> g[t].op, zone |-> g[t].zone, records |-> g[t].records,
             outcome |-> outcome, out |-> out, err |-> err,
             sent |-> g[t].sent, replies |-> replies, answer |-> answer,
             zoneBefore |-> g[t].zoneBefore, zoneAfter |-> zoneData'])
    /\ g' = [g EXCEPT ![t] = IdleG]

\* the call returns (or panics): the deferred p.mutex.Unlock() runs and the caller
\* has the result
Finish(t, outcome, out, err, replies, answer) ==
    /\ mutex' = NoOne
    /\ history' = Append(history,
            [op |-> g[t].op, zone |-> g[t].zone, records |-> g[t].records,
             outcome |-> outcome, out |-> out, err |-> err,
             sent |-> g[t].sent, replies |-> replies, answer |-> answer,
             zoneBefore |-> g[t].zoneBefore, zoneAfter |-> zoneData'])
    /\ g' = [g EXCEPT ![t] = IdleG]

\* GetRecords builds its query and hands it to dns.Exchange
Query(t) ==
    /\ g[t].pc = "query"
    /\ LET ns == normalizedNameserver(p)
           msg == QueryMsg(g[t].zone)
       IN  /\ inflight' = inflight \cup {[from |-> t, to |-> ns, msg |-> msg]}
           /\ g' = [g EXCEPT ![t] = [@ EXCEPT !.pc = "exchange", !.nameserver = ns,
                                              !.sent = Append(@, msg)]]
    /\ UNCHANGED <<p, mutex, zoneData, history, pureVars>>

\* one turn of the loop of an update operation, up to c.Exchange, or its return
\* when the records are exhausted
Iterate(t) ==
    /\ g[t].pc = "loop"
    /\ IF g[t].i > Len(g[t].records)
       THEN /\ UNCHANGED <<p, inflight, zoneData, pureVars>>
            /\ Finish(t, "ok", g[t].out, None, g[t].replies, <<>>)
       ELSE LET record == g[t].records[g[t].i]
                r == rrFromRecord(g[t].zone, record)
                rrs == <<r.rr>>
            IN  IF r.err # None
                THEN /\ UNCHANGED <<p, inflight, zoneData, pureVars>>
                     /\ Finish(t, "error", g[t].out,
                            Some(Errorf("failed to append record: " \o Get(r.err).text, r.err)),
                            g[t].replies, <<>>)
                ELSE IF HeaderPanics(rrs)
                THEN /\ UNCHANGED <<p, inflight, zoneData, pureVars>>
                     /\ Finish(t, "panic", <<>>, None, g[t].replies, <<>>)
                ELSE LET msg == UpdateMsg(p, g[t].op, g[t].zone, rrs) IN
                     /\ inflight' = inflight \cup
                            {[from |-> t, to |-> g[t].nameserver, msg |-> msg]}
                     /\ g' = [g EXCEPT ![t] = [@ EXCEPT !.pc = "exchange",
                                                        !.sent = Append(@, msg)]]
                     /\ UNCHANGED <<p, mutex, zoneData, history, pureVars>>

\* what an exchange may come to: a reply with rcode NOERROR, a reply with another
\* rcode, or an error of the transport
Outcomes == {"ok", "rejected", "timeout"}

TimeoutError == Errorf("i/o timeout", None)

\* the loop of GetRecords, were it to pass over an answer equal to one it has
\* already taken
fetchRecordsOnce(answer) ==
    LET first == {k \in 1..Len(answer) : \A j \in 1..(k - 1) : answer[j] # answer[k]}
        Nth(n) == CHOOSE k \in first : Cardinality({j \in first : j <= k}) = n
    IN  [n \in 1..Cardinality(first) |-> recordFromRR(answer[Nth(n)])]

\* GetRecords, its loop: the records made of the answers, in their order
fetchRecords(answer) == [k \in 1..Len(answer) |-> recordFromRR(answer[k])]

\* the exchange of GetRecords returns: in.Answer is the nameserver's answer
\* section, empty when it refuses the query
ListReturn(t, m, outcome) ==
    LET answer == IF outcome = "ok" THEN Answer(zoneData, m.msg.Question[1]) ELSE <<>>
    IN  /\ UNCHANGED zoneData
        /\ IF outcome = "timeout"
           THEN Finish(t, "error", <<>>, Some(TimeoutError), <<outcome>>, <<>>)
           ELSE Finish(t, "ok", fetchRecords(answer), None, <<outcome>>, answer)

\* the exchange of an update operation returns
UpdateReturn(t, m, outcome, applied) ==
    /\ zoneData' = IF outcome = "ok" \/ (outcome = "timeout" /\ applied)
                   THEN ApplyUpdate(zoneData, m.msg.Ns)
                   ELSE zoneData
    /\ IF outcome = "timeout"
       THEN Finish(t, "error", g[t].out,
                Some(Errorf("failed to append record, " \o TimeoutError.text,
                            Some(TimeoutError))),
                Append(g[t].replies, outcome), <<>>)
       ELSE IF outcome = "rejected"
       THEN Finish(t, "error", g[t].out,
                Some(Errorf("failed to append record, server replied "
                            \o RcodeToString(5), None)),
                Append(g[t].replies, outcome), <<>>)
       ELSE /\ g' = [g EXCEPT ![t] = [@ EXCEPT !.pc = "loop", !.i = @ + 1,
                                               !.out = Append(@, g[t].records[g[t].i]),
                                               !.replies = Append(@, outcome)]]
            /\ UNCHANGED <<mutex, history>>

\* the nameserver answers the message in flight, or the transport gives up
ExchangeReturn(t, outcome, applied) ==
    /\ g[t].pc = "exchange"
    /\ \E m \in inflight :
        /\ m.from = t
        /\ inflight' = inflight \ {m}
        /\ IF g[t].op = "list"
           THEN ListReturn(t, m, outcome)
           ELSE UpdateReturn(t, m, outcome, applied)
    /\ UNCHANGED <<p, pureVars>>

Next ==
    \E t \in Goroutines :
        \/ \E z \in Zones : Call(t, "list", z, <<>>)
        \/ \E op \in UpdateOps, z \in Zones, rs \in RecordLists(MaxRecords) :
                Call(t, op, z, rs)
        \/ Lock(t)
        \/ Query(t)
        \/ Iterate(t)
        \/ \E o \in Outcomes, a \in BOOLEAN : ExchangeReturn(t, o, a)

Spec == Init /\ [][Next]_vars

\* the provider when goroutines are scheduled and every exchange returns: a step
\* that stays possible is taken, and sync.Mutex hands the mutex to a goroutine
\* that keeps waiting for it (its starvation mode)
SpecFair ==
    /\ Init
    /\ [][Next]_vars
    /\ \A t \in Goroutines :
        /\ SF_vars(Lock(t))
        /\ WF_vars(Query(t))
        /\ WF_vars(Iterate(t))
        /\ WF_vars(\E o \in Outcomes, a \in BOOLEAN : ExchangeReturn(t, o, a))

(***************************************************************************)
(* Properties.                                                             *)
(***************************************************************************)
\* the types the operations are specified to translate
SupportedTypes == {"A", "AAAA", "CNAME", "MX", "TXT"}

\* the value a resource record holds, as text
RRValue(rr) ==
    CASE rr.kind = "A" -> rr.data.A.text
      [] rr.kind = "AAAA" -> rr.data.AAAA.text
      [] rr.kind = "CNAME" -> rr.data.Target
      [] rr.kind = "NS" -> rr.data.Ns
      [] rr.kind = "MX" -> rr.data.Mx
      [] rr.kind = "TXT" -> rr.data.Txt[1]
      [] OTHER -> ""

\* the values the nameserver holds for a name and a type, in its order
Stored(data, name, type) ==
    LET Here(rr) == rr.Hdr.Name = name /\ rr.Hdr.Rrtype = StringToType(type)
        at == SelectSeq(data, Here)
    IN  [k \in 1..Len(at) |-> RRValue(at[k])]

\* the nameserver holds the value for the name and the type
Holds(data, name, type, value) ==
    \E n \in 1..Len(Stored(data, name, type)) : Stored(data, name, type)[n] = value

\* a call of an update operation with the one record r, that returned no error
OneRecordCall(h, op) ==
    /\ h.op = op
    /\ Len(h.records) = 1
    /\ h.records[1].Type \in SupportedTypes
    /\ h.outcome # "error"

\* C1: the wire exchanges of concurrent calls never interleave: at most one
\* message is in flight at any time, it is a message of the goroutine that holds
\* the provider's mutex, and a call that has begun its work holds the mutex until
\* it is over, so no other call sends between two of its exchanges.
C1_ExchangesSerialized ==
    /\ Cardinality(inflight) <= 1
    /\ \A m \in inflight : mutex = m.from
    /\ \A t \in Goroutines : g[t].pc \in {"query", "loop", "exchange"} => mutex = t

\* a query is in flight while another goroutine has called an update operation
\* and waits for the mutex
C1_Witness ==
    \E t, u \in Goroutines :
        /\ t # u
        /\ g[t].pc = "exchange"
        /\ \E m \in inflight : m.from = t
        /\ g[u].pc = "called"
        /\ g[u].op \in UpdateOps

\* C2: after a Set of a record r that the nameserver accepts, the call has
\* succeeded, it has sent one transaction holding the removal of the RRset and
\* then the insertion, and the nameserver holds exactly r's value for r's name
\* and type, whatever it held before.
C2_SetLeavesOneValue ==
    \A k \in 1..Len(history) :
        LET h == history[k] IN
        OneRecordCall(h, "set") =>
            /\ h.outcome = "ok"
            /\ Len(h.sent) = 1
            /\ Len(h.sent[1].Ns) = 2
            /\ h.sent[1].Ns[1].Hdr.Class = ClassANY
            /\ h.sent[1].Ns[2].Hdr.Class = ClassINET
            /\ Stored(h.zoneAfter, h.records[1].Name, h.records[1].Type)
                    = <<h.records[1].Value>>

\* C3: Set is idempotent: two Sets of the same record in succession both
\* succeed, the second leaves the zone as the first left it, and the zone holds
\* exactly the record's value for its name and type.
C3_SetTwiceIsSetOnce ==
    \A k \in 1..(Len(history) - 1) :
        LET a == history[k]
            b == history[k + 1]
        IN  (OneRecordCall(a, "set") /\ OneRecordCall(b, "set")
                /\ a.zone = b.zone /\ a.records = b.records) =>
            /\ a.outcome = "ok"
            /\ b.outcome = "ok"
            /\ b.zoneAfter = a.zoneAfter
            /\ Stored(b.zoneAfter, a.records[1].Name, a.records[1].Type)
                    = <<a.records[1].Value>>

\* C4: an Append of a supported record r followed directly by a list of the
\* zone that the nameserver answers: the Append has succeeded and the list
\* returns a record of r's type whose Value is r's Value.
C4_AppendThenListShowsValue ==
    \A k \in 1..(Len(history) - 1) :
        LET a == history[k]
            b == history[k + 1]
        IN  (OneRecordCall(a, "append") /\ b.op = "list" /\ b.zone = a.zone
                /\ b.replies = <<"ok">>) =>
            /\ a.outcome = "ok"
            /\ b.outcome = "ok"
            /\ \E n \in 1..Len(b.out) :
                /\ b.out[n].Type = a.records[1].Type
                /\ b.out[n].Value = a.records[1].Value

\* C5: an Append of a record r followed directly by a Delete of the same
\* record, both accepted by the nameserver, which did not hold r's value before:
\* both calls have succeeded and the nameserver holds no record of r's name,
\* type and value.
C5_AppendThenDeleteLeavesNone ==
    \A k \in 1..(Len(history) - 1) :
        LET a == history[k]
            b == history[k + 1]
        IN  (OneRecordCall(a, "append") /\ OneRecordCall(b, "delete")
                /\ a.zone = b.zone /\ a.records = b.records
                /\ \A name \in {a.records[1].Name, a.zone} :
                     ~Holds(a.zoneBefore, name, a.records[1].Type, a.records[1].Value)) =>
            /\ a.outcome = "ok"
            /\ b.outcome = "ok"
            /\ \A name \in {a.records[1].Name, a.zone} :
                ~Holds(b.zoneAfter, name, a.records[1].Type, a.records[1].Value)

\* a record whose Value is the canonical text of a value of its type
Canonical(r) ==
    CASE r.Type = "A" -> r.Value = "127.0.0.1"
      [] r.Type = "AAAA" -> r.Value = "::1"
      [] r.Type = "CNAME" -> r.Value = "mail.example.org."
      [] r.Type = "MX" -> r.Value = "mail.example.org."
      [] OTHER -> TRUE

\* C6: a record of type A, AAAA, CNAME or TXT translated to a wire record and
\* read back as GetRecords reads an answer comes back with the same Name, the
\* same TTL and, its Value being canonical text, the same Value.
C6_RoundTrip ==
    (trBack # None /\ Get(trIn).record.Type \in {"A", "AAAA", "CNAME", "TXT"}
        /\ Canonical(Get(trIn).record)) =>
        /\ ~Get(trBack).panic
        /\ Get(Get(trBack).record).Name = Get(trIn).record.Name
        /\ Get(Get(trBack).record).TTL = Get(trIn).record.TTL
        /\ Get(Get(trBack).record).Value = Get(trIn).record.Value

\* C7: a record whose type is outside the supported set is refused: when an
\* update operation comes to it, the call returns an error that wraps
\* "unsupported type <type>", with the records applied before it, and no message
\* was sent for it; no message for such a record is ever in flight.
C7_UnsupportedTypeRefused ==
    /\ \A k \in 1..Len(history) :
        LET h == history[k] IN
        h.op \in UpdateOps =>
            \A j \in 1..Len(h.records) :
                (h.records[j].Type \notin SupportedTypes /\ Len(h.out) >= j - 1) =>
                    /\ h.outcome = "error"
                    /\ Len(h.out) = j - 1
                    /\ Len(h.sent) = j - 1
                    /\ Get(h.err).wraps
                         = Some(Errorf("unsupported type " \o h.records[j].Type, None))
    /\ \A t \in Goroutines :
        (g[t].pc = "exchange" /\ g[t].op \in UpdateOps) =>
            g[t].records[g[t].i].Type \in SupportedTypes

\* an update operation was handed a record of type SRV first and has returned
\* an error
C7_Witness ==
    \E k \in 1..Len(history) :
        /\ history[k].op \in UpdateOps
        /\ Len(history[k].records) >= 1
        /\ history[k].records[1].Type = "SRV"
        /\ history[k].outcome = "error"
        /\ history[k].sent = <<>>

\* the payload of the wire record of a record: the address for A and AAAA, the
\* target for CNAME, the exchange host for MX, one text chunk for TXT
Payload(r) ==
    CASE r.Type = "A" -> [A |-> IPAddr(r.Value)]
      [] r.Type = "AAAA" -> [AAAA |-> IPAddr(r.Value)]
      [] r.Type = "CNAME" -> [Target |-> r.Value]
      [] r.Type = "MX" -> [Preference |-> 0, Mx |-> r.Value]
      [] r.Type = "TXT" -> [Txt |-> <<r.Value>>]

\* C8: for a record of a supported type, the translation succeeds and returns a
\* wire record of the type's code and of class INET whose payload is the
\* record's Value.
C8_TranslationFillsRecord ==
    (trOut # None /\ Get(trIn).record.Type \in SupportedTypes
        /\ Canonical(Get(trIn).record)) =>
        /\ Get(trOut).err = None
        /\ Get(trOut).rr # None
        /\ Get(Get(trOut).rr).Hdr.Rrtype = StringToType(Get(trIn).record.Type)
        /\ Get(Get(trOut).rr).Hdr.Class = ClassINET
        /\ Get(Get(trOut).rr).data = Payload(Get(trIn).record)

\* an address made of a host and a port: host, or [host], then a colon and a
\* port, with no other colon or bracket
HasBracket(s) == IndexByte(s, "[") >= 0 \/ IndexByte(s, "]") >= 0
BracketedHost(s) ==
    /\ Len(s) >= 2
    /\ s[1] = "["
    /\ s[Len(s)] = "]"
    /\ ~HasBracket(SubSeq(s, 2, Len(s) - 1))
ExplicitPort(a) ==
    \E n \in 1..Len(a) :
        /\ a[n] = ":"
        /\ LET host == SubSeq(a, 1, n - 1)
               port == SubSeq(a, n + 1, Len(a))
           IN  /\ IndexByte(port, ":") < 0
               /\ ~HasBracket(port)
               /\ \/ BracketedHost(host)
                  \/ IndexByte(host, ":") < 0 /\ ~HasBracket(host)

\* an address with no port: no colon at all, or a bracketed host and no more
LacksPort(a) == IndexByte(a, ":") < 0 \/ BracketedHost(a)

\* C9: normalizedNameserver returns an address that has a port as it is, an
\* address that has none with ":53" appended, and any other address as it is.
C9_NormalizeAsSpecified ==
    normOut # None =>
        LET a == p.Nameserver IN
        /\ ExplicitPort(a) => Get(normOut) = a
        /\ LacksPort(a) => Get(normOut) = a \o <<":">> \o defaultPort
        /\ (~ExplicitPort(a) /\ ~LacksPort(a)) => Get(normOut) = a

\* C10: an update call stops at the first record that fails and returns the
\* error with the records before it, in order, having sent nothing for the
\* records after it; when no record fails it returns all the records and no
\* error.
C10_StopsAtFirstFailure ==
    \A k \in 1..Len(history) :
        LET h == history[k]
            n == Len(h.out)
        IN  h.op \in UpdateOps =>
            /\ h.outcome \in {"ok", "error"}
            /\ n <= Len(h.records)
            /\ h.out = SubSeq(h.records, 1, n)
            /\ \A j \in 1..n : h.records[j].Type \in SupportedTypes
            /\ h.outcome = "ok" => (n = Len(h.records) /\ h.err = None /\ Len(h.sent) = n)
            /\ h.outcome = "error" =>
                /\ n < Len(h.records)
                /\ h.err # None
                /\ \/ h.records[n + 1].Type \notin SupportedTypes /\ Len(h.sent) = n
                   \/ /\ h.records[n + 1].Type \in SupportedTypes
                      /\ Len(h.sent) = n + 1
                      /\ h.replies[n + 1] \in {"rejected", "timeout"}

\* a call of an update operation with one record of a supported type
OneSupportedRecord(h) ==
    /\ h.op \in UpdateOps
    /\ Len(h.records) = 1
    /\ h.records[1].Type \in SupportedTypes

\* the error says the nameserver refused, by the name of its rcode
SaysRefused(err) ==
    /\ err # None
    /\ \E said \in {"failed to append record, server replied ", "server replied ", ""} :
            Get(err).text = said \o RcodeToString(5)

\* C11: an update call on a record of a supported type exchanges one message
\* for it and returns as the exchange came out: an error wrapping the
\* transport's error when the transport failed, an error carrying the name of
\* the rcode when the nameserver replied with an rcode other than success, and
\* otherwise no error and the record among the records returned; the record is
\* never among the records returned after a failed or rejected exchange.
C11_ExchangeOutcomeClassified ==
    \A k \in 1..Len(history) :
        LET h == history[k] IN
        OneSupportedRecord(h) =>
            /\ Len(h.replies) = 1
            /\ h.replies[1] = "timeout" =>
                    /\ h.outcome = "error"
                    /\ h.err # None
                    /\ Get(h.err).wraps = Some(TimeoutError)
                    /\ h.out = <<>>
            /\ h.replies[1] = "rejected" =>
                    /\ h.outcome = "error"
                    /\ SaysRefused(h.err)
                    /\ h.out = <<>>
            /\ h.replies[1] = "ok" =>
                    /\ h.outcome = "ok"
                    /\ h.err = None
                    /\ h.out = h.records

\* TSIG is configured: the key's name and the secret are both set
TsigActive(prov) == Len(prov.TSIGKeyName) > 0 /\ Len(prov.TSIGSecret) > 0

\* C13: when TSIG is configured, every message a public operation sends is
\* signed, the query of GetRecords included.
C13_EveryMessageSigned ==
    \A m \in inflight : TsigActive(p) => m.msg.Tsig # None

\* C14: a GetRecords whose query the nameserver answers with an rcode other
\* than success returns an error naming the rcode, not a list of records.
C14_ListRejectedIsError ==
    \A k \in 1..Len(history) :
        LET h == history[k] IN
        (h.op = "list" /\ h.replies = <<"rejected">>) =>
            /\ h.outcome = "error"
            /\ SaysRefused(h.err)

\* the owner names of the records the nameserver holds
OwnerNames(data) == {data[n].Hdr.Name : n \in 1..Len(data)}

\* C15: a SetRecords of one record r of a supported type that returns no error
\* has succeeded, leaves r's value stored under r's name and type, and leaves
\* what is stored under every other name or type as it was.
C15_SetTouchesOwnRRsetOnly ==
    \A k \in 1..Len(history) :
        LET h == history[k]
            r == h.records[1]
        IN  OneRecordCall(h, "set") =>
            /\ h.outcome = "ok"
            /\ Holds(h.zoneAfter, r.Name, r.Type, r.Value)
            /\ \A name \in OwnerNames(h.zoneBefore) \cup OwnerNames(h.zoneAfter),
                  type \in RecordTypes :
                    (name # r.Name \/ type # r.Type) =>
                        Stored(h.zoneAfter, name, type) = Stored(h.zoneBefore, name, type)

\* the position of the first record of an unsupported type, or one past the last
FirstUnsupported(records) ==
    LET bad == {j \in 1..Len(records) : records[j].Type \notin SupportedTypes}
    IN  IF bad = {} THEN Len(records) + 1 ELSE CHOOSE j \in bad : \A i \in bad : j <= i

\* the position of the first exchange that failed or was rejected, or 0
FirstFailedExchange(replies) ==
    LET bad == {j \in 1..Len(replies) : replies[j] # "ok"}
    IN  IF bad = {} THEN 0 ELSE CHOOSE j \in bad : \A i \in bad : j <= i

\* C16: an update call sends one message per record, in the order given, and
\* none twice: all n of them when nothing fails, k - 1 when the translation of
\* the k-th record fails, k when the exchange of the k-th record fails.
C16_OneMessagePerRecord ==
    \A k \in 1..Len(history) :
        LET h == history[k] IN
        h.op \in UpdateOps =>
            /\ Len(h.replies) = Len(h.sent)
            /\ Len(h.sent) = IF FirstFailedExchange(h.replies) # 0
                             THEN FirstFailedExchange(h.replies)
                             ELSE FirstUnsupported(h.records) - 1
            /\ \A j \in 1..Len(h.sent) :
                /\ Len(h.sent[j].Ns) \in {1, 2}
                /\ \A n \in 1..Len(h.sent[j].Ns) :
                        h.sent[j].Ns[n].Hdr.Rrtype = StringToType(h.records[j].Type)

\* C17: the message AppendRecords sends for a record holds one directive, the
\* insertion of the record, and none that removes; the message DeleteRecords
\* sends holds one directive, the deletion of the record by its value, and none
\* that inserts.
C17_AppendInsertsDeleteRemoves ==
    \A k \in 1..Len(history) :
        LET h == history[k] IN
        /\ OneRecordCall(h, "append") =>
            /\ Len(h.sent) = 1
            /\ Len(h.sent[1].Ns) = 1
            /\ h.sent[1].Ns[1].Hdr.Class = ClassINET
        /\ OneRecordCall(h, "delete") =>
            /\ Len(h.sent) = 1
            /\ Len(h.sent[1].Ns) = 1
            /\ h.sent[1].Ns[1].Hdr.Class = ClassNONE
            /\ h.sent[1].Ns[1].kind # "ANY"

\* t seconds as a time.Duration, for the uint32 t of a resource record's header
SecondsOfWire(t) ==
    MulLimbs(MulLimbs(MulLimbs(t \o <<0, 0>>, 1000, 0), 1000, 0), 1000, 0)

\* C18: the TTL on the wire is a number of seconds: a record of TTL 300 s goes
\* out with TTL 300, and a record GetRecords reads with TTL t on the wire has
\* a TTL of t seconds.
C18_TtlInSeconds ==
    /\ \A k \in 1..Len(history) :
        LET h == history[k] IN
        (h.op = "list" /\ h.outcome = "ok") =>
            \A n \in 1..Len(h.out) :
                n <= Len(h.answer) => h.out[n].TTL = SecondsOfWire(h.answer[n].Hdr.Ttl)
    /\ \A t \in Goroutines :
        (g[t].pc = "loop" /\ g[t].i <= Len(g[t].records)) =>
            SecondsOfWire(rrHeader(g[t].zone, g[t].records[g[t].i]).Ttl)
                = g[t].records[g[t].i].TTL

\* C19: a GetRecords whose exchange succeeds returns one record per record of
\* the answer section, in the nameserver's order, none dropped and none merged
\* (the zone's NS records and records given twice included), and no error; an
\* empty answer section gives an empty list and no error; a GetRecords whose
\* exchange fails returns the transport's error as it is, and no records.
C19_ListMirrorsAnswer ==
    \A k \in 1..Len(history) :
        LET h == history[k] IN
        h.op = "list" =>
            IF h.replies = <<"timeout">>
            THEN /\ h.outcome = "error"
                 /\ h.err = Some(TimeoutError)
                 /\ h.out = <<>>
            ELSE /\ h.outcome = "ok"
                 /\ h.err = None
                 /\ Len(h.out) = Len(h.answer)
                 /\ \A n \in 1..Len(h.answer) :
                        /\ h.out[n].Name = h.answer[n].Hdr.Name
                        /\ StringToType(h.out[n].Type) = h.answer[n].Hdr.Rrtype
                        /\ SubSeq(h.out[n].TTL, 1, 2) = h.answer[n].Hdr.Ttl

\* a GetRecords has returned the records of an answer section that holds the
\* NS record of the zone and a record given twice
C19_Witness ==
    \E k \in 1..Len(history) :
        LET h == history[k] IN
        /\ h.op = "list"
        /\ h.outcome = "ok"
        /\ Len(h.out) = Len(h.answer)
        /\ \E n \in 1..Len(h.answer) : h.answer[n].Hdr.Rrtype = StringToType("NS")
        /\ \E m, n \in 1..Len(h.answer) :
                m < n /\ h.answer[m] = h.answer[n] /\ h.out[m] = h.out[n]

\* C12: an update operation called with a record of a supported type sends a
\* message for it, and that message is signed exactly when the key's name and
\* the secret are both set; the signature then names the key and the algorithm
\* in fully qualified form and has a fudge of 300 seconds.
C12_UpdateSignedWhenConfigured ==
    \A k \in 1..Len(history) :
        LET h == history[k]
            FullyQualified(name, of) == IsFqdn(name) /\ name \in {of, of \o <<".">>}
        IN  OneSupportedRecord(h) =>
            /\ Len(h.sent) = 1
            /\ (h.sent[1].Tsig # None) <=> (p.TSIGKeyName # <<>> /\ p.TSIGSecret # <<>>)
            /\ h.sent[1].Tsig # None =>
                /\ FullyQualified(Get(h.sent[1].Tsig).Name, p.TSIGKeyName)
                /\ FullyQualified(Get(h.sent[1].Tsig).Algorithm, p.TSIGAlgorithm)
                /\ Get(h.sent[1].Tsig).Fudge = 300

\* C20: a call gives the mutex back when it returns, whatever the path: the
\* mutex is held only by a goroutine whose call is running and is free when no
\* call runs; and when every exchange returns, every call returns and every
\* call that waits for the mutex comes to hold it.
C20_LockReleasedAndGranted ==
    /\ [](mutex # NoOne => g[mutex].pc \in {"query", "loop", "exchange"})
    /\ [](Active = {} => mutex = NoOne)
    /\ [][\A t \in Goroutines : (mutex = t /\ g'[t].pc = "idle") => mutex' = NoOne]_vars
    /\ \A t \in Goroutines : (g[t].pc # "idle") ~> (g[t].pc = "idle")
    /\ \A t \in Goroutines : (g[t].pc = "called") ~> (mutex = t)

\* a call has ended on an error or a panic, and a later call holds the mutex
C20_Witness ==
    /\ Len(history) >= 1
    /\ history[1].outcome \in {"error", "panic"}
    /\ \E t \in Goroutines : mutex = t /\ g[t].pc \in {"query", "loop", "exchange"}

====
